---- MODULE Spec2Model ----
(***************************************************************************)
(* Model of the JSON extract renderer of pyramid_oereb                     *)
(* (pyramid_oereb/lib/renderer/extract/json_.py) and of the OfficeRecord   *)
(* it formats (pyramid_oereb/lib/records/office.py).                       *)
(*                                                                         *)
(* Python values are records [type, str, int, dict]; output nodes (Python  *)
(* dicts) are functions from key strings to values; a raised exception is  *)
(* a result with status "raise".                                           *)
(***************************************************************************)
EXTENDS Integers, Sequences, FiniteSets, TLC

VARIABLES Config, _language, _params, _request, office, arg, out, pc,
          renders, frames

vars == <<Config, _language, _params, _request, office, arg, out, pc, renders, frames>>

(***************************************************************************)
(* Bounds of the model.                                                    *)
(***************************************************************************)
\* longest list of restrictions handed to format_plr
MaxPlrs == 2

\* number of requests that call the one Renderer at the same time
MaxRenders == 2

\* number of documents of a document graph
MaxDocuments == 3

\* the interpreter's recursion limit (sys.getrecursionlimit()), counted in
\* calls of format_document: deeper than any graph without a cycle
RecursionLimit == 4

(***************************************************************************)
(* Python values.                                                          *)
(***************************************************************************)
Languages == {"de", "fr", "en"}

NoDict == [l \in {} |-> ""]

None == [type |-> "NoneType", str |-> "", int |-> 0, dict |-> NoDict]

PyStr(s) == [type |-> "str", str |-> s, int |-> 0, dict |-> NoDict]

PyInt(n) == [type |-> "int", str |-> "", int |-> n, dict |-> NoDict]

PyDict(d) == [type |-> "dict", str |-> "", int |-> 0, dict |-> d]

\* Python truth value of a value, as tested by "if x:" and "not (x)"
Truthy(v) ==
    CASE v.type = "NoneType" -> FALSE
      [] v.type = "str" -> v.str # ""
      [] v.type = "int" -> v.int # 0
      [] v.type = "dict" -> DOMAIN v.dict # {}
      [] OTHER -> TRUE

\* str(x).lower() on the language codes of the model
Lower(s) ==
    CASE s = "DE" -> "de"
      [] s = "FR" -> "fr"
      [] s = "EN" -> "en"
      [] OTHER -> s

\* a Python dict literal / dict.update: the right operand wins
Update(d, e) == e @@ d

Has(d, k) == k \in DOMAIN d

(***************************************************************************)
(* Results of a call: a returned value or a raised exception.              *)
(***************************************************************************)
NoNode == [k \in {} |-> None]

NoResult == [status |-> "none", err |-> "", val |-> NoNode]

Return(v) == [status |-> "ok", err |-> "", val |-> v]

Raise(e) == [status |-> "raise", err |-> e, val |-> NoNode]

MissingLegalBasis == "ValueError: Restrictions on landownership without legal provision"

UnknownGeometryType == "TypeError: geometry type is not configured in geometry_types"

MissingParameter == "TypeError: Missing parameter definition"

MissingName == "TypeError: Field name must be defined"

AssertionError == "AssertionError"

AttributeError == "AttributeError: object has no attribute"

\* raised by the interpreter when a call exceeds its recursion limit
RecursionDepthExceeded == "RuntimeError: maximum recursion depth exceeded"

\* the rest of a function body runs on the value of a call that returned;
\* an exception leaves the function
Bind(result, rest(_)) == IF result.status = "raise" THEN result ELSE rest(result.val)

\* the entries a conditional statement adds to a node
If(condition, entries) == IF condition THEN entries ELSE NoNode

(***************************************************************************)
(* Process-wide configuration (Config.get).                                *)
(***************************************************************************)
DefaultLanguages == {"de", "en"}

GeometryTypeTags == {"Point", "LineString", "Polygon", "GeometryCollection"}

\* the configured geometry_types tables: the shipped one, one that leaves the
\* lines out, and one that (erroneously) lists a tag in two categories
GeometryTables ==
    { [point |-> {"Point"}, line |-> {"LineString"}, polygon |-> {"Polygon"}],
      [point |-> {"Point"}, line |-> {}, polygon |-> {"Polygon"}],
      [point |-> {"Point", "Polygon"}, line |-> {"LineString", "Polygon"},
       polygon |-> {"Polygon"}] }

Configs ==
    [default_language : DefaultLanguages, geometry_types : GeometryTables,
     srid : {"2056"}]

(***************************************************************************)
(* Renderer.get_localized_text                                             *)
(***************************************************************************)
\* dict.get(key): None when the key is missing
DictGet(d, k) == IF k \in DOMAIN d THEN PyStr(d[k]) ELSE None

LocalizedEntry(language, text) == [Language |-> language, Text |-> text]

get_localized_text_tag_requested(cfg, language, values) ==
    IF values.type = "dict"
    THEN IF language \in DOMAIN values.dict
         THEN <<LocalizedEntry(language, DictGet(values.dict, language))>>
         ELSE <<LocalizedEntry(cfg.default_language,
                               DictGet(values.dict, cfg.default_language))>>
    ELSE <<LocalizedEntry(language, values)>>

\* cfg is Config, language is self._language
get_localized_text(cfg, language, values) ==
    LET default_language == cfg.default_language
    IN  IF values.type = "dict"
        THEN IF language \in DOMAIN values.dict
             THEN <<LocalizedEntry(language, DictGet(values.dict, language))>>
             ELSE <<LocalizedEntry(default_language,
                                   DictGet(values.dict, default_language))>>
        ELSE <<LocalizedEntry(default_language, values)>>

(***************************************************************************)
(* Inputs: multilingual values.                                            *)
(***************************************************************************)
TextIn(l) == CASE l = "de" -> "Hallo" [] l = "fr" -> "Salut" [] OTHER -> "Hello"

MultilingualDicts == { PyDict([l \in S |-> TextIn(l)]) : S \in SUBSET Languages }

LocalizedValues == MultilingualDicts \cup {PyStr("x"), PyStr("")}

\* the language a request may ask for (Parameter.language)
RequestLanguages == {None, PyStr("de"), PyStr("fr"), PyStr("FR"), PyStr("it")}

\* lines 76-77: self._language once _render has read the parameter
language_after(current, param) ==
    IF Truthy(param.language) THEN Lower(param.language.str) ELSE current

\* line 27: self._language of a new Renderer
InitialLanguage(cfg) == Lower(cfg.default_language)

(***************************************************************************)
(* Optional lists ("isinstance(x, list) and len(x) > 0") and binary        *)
(* payloads (image.encode(), symbol.encode()).                             *)
(***************************************************************************)
NoList == [isList |-> FALSE, items |-> <<>>]

List(items) == [isList |-> TRUE, items |-> items]

NonEmptyList(l) == l.isList /\ Len(l.items) > 0

\* an ImageRecord: an object, hence true in a condition
Image(content) == [type |-> "ImageRecord", str |-> content, int |-> 0, dict |-> NoDict]

\* ImageRecord.encode(): the payload, base64 encoded
Encode(image) == <<"base64", image.str>>

\* request.route_url(route, **kw) of the request held in self._request
RouteUrl(request, route, kw) == [request |-> request, route |-> route, kw |-> kw]

(***************************************************************************)
(* OfficeRecord (records/office.py)                                        *)
(***************************************************************************)
OfficeOptionalFields ==
    {"uid", "office_at_web", "line1", "line2", "street", "number", "postal_code", "city"}

OfficeFields == {"name"} \cup OfficeOptionalFields

\* the value of a keyword argument: the one supplied, or its default None
Argument(kwargs, f) == IF f \in DOMAIN kwargs THEN kwargs[f] ELSE None

OfficeRecordInit_unchecked(kwargs) ==
    Return([f \in OfficeFields |-> Argument(kwargs, f)])

\* OfficeRecord.__init__: the record, as a function of its field names
OfficeRecordInit(kwargs) ==
    IF ~Truthy(Argument(kwargs, "name"))
    THEN Raise(MissingName)
    ELSE Return([f \in OfficeFields |-> Argument(kwargs, f)])

(***************************************************************************)
(* Renderer.format_office                                                  *)
(***************************************************************************)
\* "if value: node[key] = value"
IfSet(node, value, key) == IF Truthy(value) THEN Update(node, key :> value) ELSE node

format_office_emit_all(cfg, language, o) ==
    ("Name" :> get_localized_text(cfg, language, o["name"]))
    @@ ("OfficeAtWeb" :> o["office_at_web"]) @@ ("UID" :> o["uid"])
    @@ ("Line1" :> o["line1"]) @@ ("Line2" :> o["line2"])
    @@ ("Street" :> o["street"]) @@ ("Number" :> o["number"])
    @@ ("PostalCode" :> o["postal_code"]) @@ ("City" :> o["city"])

format_office(cfg, language, o) ==
    LET d0 == "Name" :> get_localized_text(cfg, language, o["name"])
        d1 == IfSet(d0, o["office_at_web"], "OfficeAtWeb")
        d2 == IfSet(d1, o["uid"], "UID")
        d3 == IfSet(d2, o["line1"], "Line1")
        d4 == IfSet(d3, o["line2"], "Line2")
        d5 == IfSet(d4, o["street"], "Street")
        d6 == IfSet(d5, o["number"], "Number")
        d7 == IfSet(d6, o["postal_code"], "PostalCode")
    IN  IfSet(d7, o["city"], "City")

(***************************************************************************)
(* Inputs: keyword arguments of OfficeRecord(...).                         *)
(***************************************************************************)
\* an office name is a plain string or a multilingual dict
NameArguments ==
    {None, PyStr(""), PyStr("a"), PyDict([l \in {"de", "fr"} |-> TextIn(l)])}

\* what a caller does with an optional field: leaves it out, passes an empty
\* string, or passes a value
OptionalArgument(f) ==
    IF f = "postal_code" THEN PyInt(4123)
    ELSE IF f = "uid" THEN PyStr("ch99")
    ELSE PyStr(f)

OptionalChoices ==
    { c \in [OfficeOptionalFields -> {"omitted", "empty", "value"}] :
        c["postal_code"] # "empty" }

OptionalKwargs ==
    { [f \in {g \in OfficeOptionalFields : c[g] # "omitted"} |->
          IF c[f] = "empty" THEN PyStr("") ELSE OptionalArgument(f)] :
      c \in OptionalChoices }

OfficeKwargs ==
    OptionalKwargs
    \cup { Update(k, "name" :> n) : k \in OptionalKwargs, n \in NameArguments }

\* the offices the extracts of the model refer to
SomeOffice == OfficeRecordInit("name" :> PyStr("Amt")).val

(***************************************************************************)
(* The office specification: construct an OfficeRecord, then format it     *)
(* on a freshly constructed renderer.                                      *)
(***************************************************************************)
ShippedGeometryTypes ==
    [point |-> {"Point"}, line |-> {"LineString"}, polygon |-> {"Polygon"}]

NoParams == [isParameter |-> FALSE, flavour |-> "", images |-> FALSE,
             geometry |-> FALSE, language |-> None]

InitOffice ==
    /\ Config \in {c \in Configs : c.geometry_types = ShippedGeometryTypes}
    /\ _language = InitialLanguage(Config)
    /\ _params = NoParams
    /\ _request = FALSE
    /\ office = NoNode
    /\ arg \in OfficeKwargs
    /\ out = NoResult
    /\ pc = "new"
    /\ renders = <<>>
    /\ frames = <<>>

\* OfficeRecord(**arg)
NewOfficeRecord ==
    /\ pc = "new"
    /\ out' = OfficeRecordInit(arg)
    /\ office' = IF out'.status = "ok" THEN out'.val ELSE office
    /\ pc' = IF out'.status = "ok" THEN "constructed" ELSE "raised"
    /\ UNCHANGED <<Config, _language, _params, _request, arg, renders, frames>>

\* renderer.format_office(office)
FormatOffice ==
    /\ pc = "constructed"
    /\ out' = Return(format_office(Config, _language, office))
    /\ pc' = "formatted"
    /\ UNCHANGED <<Config, _language, _params, _request, office, arg, renders, frames>>

NextOffice == NewOfficeRecord \/ FormatOffice

SpecOffice == InitOffice /\ [][NextOffice]_vars

(***************************************************************************)
(* Renderer.format_theme, format_legend_entry, format_map                  *)
(***************************************************************************)
format_theme(cfg, language, theme) ==
    [Code |-> theme.code, Text |-> get_localized_text(cfg, language, theme.text)]

format_legend_entry(cfg, language, params, request, legend_entry) ==
    LET d0 == ("LegendText" :> get_localized_text(cfg, language, legend_entry.legend_text))
              @@ ("TypeCode" :> legend_entry.type_code)
              @@ ("TypeCodelist" :> legend_entry.type_code_list)
              @@ ("Theme" :> format_theme(cfg, language, legend_entry.theme))
        d1 == Update(d0, IF params.images
                         THEN "Symbol" :> Encode(legend_entry.symbol)
                         ELSE "SymbolRef" :>
                              RouteUrl(request, "image/symbol",
                                       [theme_code |-> legend_entry.theme.code,
                                        type_code |-> legend_entry.type_code]))
        d2 == IfSet(d1, legend_entry.sub_theme, "SubTheme")
    IN  IfSet(d2, legend_entry.additional_theme, "OtherTheme")

\* lines 430-432
other_legend(cfg, language, params, request, map_) ==
    If(NonEmptyList(map_.legends),
       "OtherLegend" :>
           [i \in 1..Len(map_.legends.items) |->
               format_legend_entry(cfg, language, params, request, map_.legends.items[i])])

format_map(cfg, language, params, request, map_) ==
    LET d0 == NoNode
        d1 == Update(d0, If(Truthy(map_.image), "Image" :> Encode(map_.image)))
        d2 == IfSet(d1, map_.link_wms, "ReferenceWMS")
        d3 == IfSet(d2, map_.legend_web, "LegendAtWeb")
    IN  Update(d3, other_legend(cfg, language, params, request, map_))

(***************************************************************************)
(* Renderer.format_document                                                *)
(***************************************************************************)
\* "if value: node[key] = self.get_localized_text(value)"
IfSetLocalized(cfg, language, node, value, key) ==
    Update(node, If(Truthy(value), key :> get_localized_text(cfg, language, value)))

RECURSIVE format_document(_, _, _)

\* lines 299-312: "for d in documents: l.append(self.format_document(d))"
format_documents(cfg, language, documents) ==
    [i \in 1..Len(documents) |-> format_document(cfg, language, documents[i])]

format_document(cfg, language, document) ==
    IF document.class \in {"DocumentRecord", "LegalProvisionRecord"}
    THEN LET d0 == ("Lawstatus" :> document.legal_state)
                   @@ ("TextAtWeb" :> get_localized_text(cfg, language, document.text_at_web))
                   @@ ("Title" :> get_localized_text(cfg, language, document.title))
                   @@ ("ResponsibleOffice" :>
                          format_office(cfg, language, document.responsible_office))
             d1 == IfSetLocalized(cfg, language, d0, document.official_title, "OfficialTitle")
             d2 == IfSetLocalized(cfg, language, d1, document.abbreviation, "Abbrevation")
             d3 == IfSet(d2, document.official_number, "OfficialNumber")
             d4 == IfSet(d3, document.canton, "Canton")
             d5 == IfSet(d4, document.municipality, "Municipality")
             d6 == Update(d5, If(NonEmptyList(document.article_numbers),
                                 "ArticleNumber" :> document.article_numbers.items))
             d7 == Update(d6, If(NonEmptyList(document.articles),
                                 "Article" :>
                                     format_documents(cfg, language, document.articles.items)))
         IN  Update(d7, If(NonEmptyList(document.references),
                           "Reference" :>
                               format_documents(cfg, language, document.references.items)))
    ELSE IF document.class = "ArticleRecord"
    THEN LET d0 == ("Lawstatus" :> document.legal_state) @@ ("Number" :> document.number)
             d1 == IfSetLocalized(cfg, language, d0, document.text_at_web, "TextAtWeb")
         IN  IfSetLocalized(cfg, language, d1, document.text, "Text")
    ELSE NoNode

(***************************************************************************)
(* Renderer.from_shapely, format_geometry                                  *)
(***************************************************************************)
from_shapely(cfg, geom) ==
    [coordinates |-> geom.coordinates, crs |-> <<"EPSG:", cfg.srid>>]

geometry_type_line_first(cfg, tag) ==
    LET geometry_types == cfg.geometry_types
    IN  IF tag \in geometry_types.line THEN "Line"
        ELSE IF tag \in geometry_types.point THEN "Point"
        ELSE IF tag \in geometry_types.polygon THEN "Surface"
        ELSE ""

\* lines 340-350: the output key of a native type tag, "" when none matches
geometry_type(cfg, tag) ==
    LET geometry_types == cfg.geometry_types
    IN  IF tag \in geometry_types.point THEN "Point"
        ELSE IF tag \in geometry_types.line THEN "Line"
        ELSE IF tag \in geometry_types.polygon THEN "Surface"
        ELSE ""

\* lines 347-361, once the category is known
geometry_node(cfg, language, geometry, category) ==
    IF category = ""
    THEN Raise(UnknownGeometryType)
    ELSE Return(IfSet((category :> from_shapely(cfg, geometry.geom))
                      @@ ("Lawstatus" :> geometry.legal_state)
                      @@ ("ResponsibleOffice" :>
                             format_office(cfg, language, geometry.office)),
                      geometry.geo_metadata, "MetadataOfGeographicalBaseData"))

format_geometry(cfg, language, geometry) ==
    geometry_node(cfg, language, geometry, geometry_type(cfg, geometry.geom.type))

\* "for x in xs: l.append(f(x))" where f may raise: the first exception
\* leaves the loop, otherwise the list of the values
CollectResults(results) ==
    LET failed == {i \in 1..Len(results) : results[i].status = "raise"}
    IN  IF failed # {}
        THEN results[CHOOSE i \in failed : \A j \in failed : i <= j]
        ELSE Return([i \in 1..Len(results) |-> results[i].val])

(***************************************************************************)
(* Renderer.format_plr                                                     *)
(***************************************************************************)
lacks_legal_provision_full_only(params, plr) ==
    params.flavour = "full" /\ plr.documents.isList /\ Len(plr.documents.items) = 0

\* lines 211-212: a PLR without legal provision outside a reduced extract
lacks_legal_provision(params, plr) ==
    params.flavour # "reduced" /\ plr.documents.isList /\ Len(plr.documents.items) = 0

plr_symbol_both(params, request, plr) ==
    ("Symbol" :> Encode(plr.symbol))
    @@ If(Truthy(plr.type_code),
          "SymbolRef" :>
              RouteUrl(request, "image/symbol",
                       [theme_code |-> plr.theme.code, type_code |-> plr.type_code]))

\* lines 225-236: the inline symbol, or the link to it when a type code is set
plr_symbol(params, request, plr) ==
    IF params.images
    THEN "Symbol" :> Encode(plr.symbol)
    ELSE If(Truthy(plr.type_code),
            "SymbolRef" :>
                RouteUrl(request, "image/symbol",
                         [theme_code |-> plr.theme.code, type_code |-> plr.type_code]))

plr_legal_provisions_always(cfg, language, plr) ==
    "LegalProvisions" :> format_documents(cfg, language, plr.documents.items)

\* lines 255-259
plr_legal_provisions(cfg, language, plr) ==
    If(NonEmptyList(plr.documents),
       "LegalProvisions" :> format_documents(cfg, language, plr.documents.items))

\* lines 249-253: the geometries of a PLR, when geometries are asked for
plr_geometry(cfg, language, params, plr) ==
    IF params.geometry /\ NonEmptyList(plr.geometries)
    THEN Bind(CollectResults([i \in 1..Len(plr.geometries.items) |->
                  format_geometry(cfg, language, plr.geometries.items[i])]),
              LAMBDA geometry_list : Return("Geometry" :> geometry_list))
    ELSE Return(NoNode)

\* lines 216-261: the node of one PlrRecord, or the exception of one of its geometries
format_plr_record(cfg, language, params, request, plr) ==
    LET d0 == ("Information" :> get_localized_text(cfg, language, plr.content))
              @@ ("Theme" :> format_theme(cfg, language, plr.theme))
              @@ ("Lawstatus" :> plr.legal_state)
              @@ ("Area" :> plr.area)
              @@ ("ResponsibleOffice" :>
                     format_office(cfg, language, plr.responsible_office))
              @@ ("Map" :> format_map(cfg, language, params, request, plr.view_service))
        d1 == Update(d0, plr_symbol(params, request, plr))
        d2 == IfSet(d1, plr.subtopic, "SubTheme")
        d3 == IfSet(d2, plr.additional_topic, "OtherTheme")
        d4 == IfSet(d3, plr.type_code, "TypeCode")
        d5 == IfSet(d4, plr.type_code_list, "TypeCodelist")
        d6 == IfSet(d5, plr.part_in_percent, "PartInPercent")
    IN  Bind(plr_geometry(cfg, language, params, plr),
             LAMBDA geometry :
                 Return(Update(Update(d6, geometry),
                               plr_legal_provisions(cfg, language, plr))))

RECURSIVE format_plr_loop(_, _, _, _, _, _, _)

\* lines 206-263: the loop over plrs from index i on, plr_list holding the nodes so far
format_plr_loop(cfg, language, params, request, plrs, i, plr_list) ==
    IF i > Len(plrs)
    THEN Return(plr_list)
    ELSE IF plrs[i].class # "PlrRecord"
    THEN format_plr_loop(cfg, language, params, request, plrs, i + 1, plr_list)
    ELSE IF lacks_legal_provision(params, plrs[i])
    THEN Raise(MissingLegalBasis)
    ELSE Bind(format_plr_record(cfg, language, params, request, plrs[i]),
              LAMBDA plr_dict :
                  format_plr_loop(cfg, language, params, request, plrs, i + 1,
                                  Append(plr_list, plr_dict)))

format_plr(cfg, language, params, request, plrs) ==
    IF ~params.isParameter
    THEN Raise(AssertionError)
    ELSE format_plr_loop(cfg, language, params, request, plrs, 1, <<>>)

(***************************************************************************)
(* Renderer.format_real_estate                                             *)
(***************************************************************************)
\* lines 177-180
real_estate_restrictions(cfg, language, params, request, real_estate) ==
    IF NonEmptyList(real_estate.public_law_restrictions)
    THEN Bind(format_plr(cfg, language, params, request,
                         real_estate.public_law_restrictions.items),
              LAMBDA plrs : Return("RestrictionOnLandownership" :> plrs))
    ELSE Return(NoNode)

format_real_estate(cfg, language, params, request, real_estate) ==
    IF ~params.isParameter
    THEN Raise(AssertionError)
    ELSE
    LET d0 == ("Type" :> real_estate.type)
              @@ ("Canton" :> real_estate.canton)
              @@ ("Municipality" :> real_estate.municipality)
              @@ ("FosNr" :> real_estate.fosnr)
              @@ ("LandRegistryArea" :> real_estate.land_registry_area)
              @@ ("PlanForLandRegister" :>
                     format_map(cfg, language, params, request,
                                real_estate.plan_for_land_register))
        d1 == Update(d0, If(params.geometry,
                            "Limit" :> from_shapely(cfg, real_estate.limit)))
        d2 == IfSet(d1, real_estate.number, "Number")
        d3 == IfSet(d2, real_estate.identdn, "IdentDN")
        d4 == IfSet(d3, real_estate.egrid, "EGRID")
        d5 == IfSet(d4, real_estate.subunit_of_land_register, "SubunitOfLandRegister")
        d6 == IfSet(d5, real_estate.metadata_of_geographical_base_data,
                    "MetadataOfGeographicalBaseData")
    IN  Bind(real_estate_restrictions(cfg, language, params, request, real_estate),
             LAMBDA restrictions :
                 Return(Update(Update(d6, restrictions),
                               If(NonEmptyList(real_estate.references),
                                  "Reference" :>
                                      format_documents(cfg, language,
                                                       real_estate.references.items)))))

(***************************************************************************)
(* Renderer._render                                                        *)
(***************************************************************************)
\* Base.date_time: the timestamp in the format of the extract
date_time(dt) == <<"date_time", dt>>

is_reduced_only(params) == params.flavour = "reduced"

\* line 81
is_reduced(params) == params.flavour \in {"reduced", "embeddable"}

\* lines 91-110: the four logos, inline or as links
logos(request, params, extract) ==
    IF params.images
    THEN ("LogoPLRCadastre" :> Encode(extract.logo_plr_cadastre))
         @@ ("FederalLogo" :> Encode(extract.federal_logo))
         @@ ("CantonalLogo" :> Encode(extract.cantonal_logo))
         @@ ("MunicipalityLogo" :> Encode(extract.municipality_logo))
    ELSE ("LogoPLRCadastreRef" :> RouteUrl(request, "image/logo", [logo |-> "oereb"]))
         @@ ("FederalLogoRef" :> RouteUrl(request, "image/logo", [logo |-> "confederation"]))
         @@ ("CantonalLogoRef" :> RouteUrl(request, "image/logo", [logo |-> "canton"]))
         @@ ("MunicipalityLogoRef" :>
                RouteUrl(request, "image/municipality",
                         [fosnr |-> extract.real_estate.fosnr]))

\* lines 121-125, 130-134
title_content(cfg, language, entries) ==
    [i \in 1..Len(entries) |->
        [Title |-> get_localized_text(cfg, language, entries[i].title),
         Content |-> get_localized_text(cfg, language, entries[i].content)]]

\* line 86-88
format_themes(cfg, language, themes) ==
    [i \in 1..Len(themes) |-> format_theme(cfg, language, themes[i])]

\* lines 79-137 with self._language = language: the extract, given the node
\* of its real estate
extract_dict(cfg, language, request, extract, param, real_estate) ==
    LET d0 == ("CreationDate" :> date_time(extract.creation_date))
              @@ ("isReduced" :> is_reduced(param))
              @@ ("ExtractIdentifier" :> extract.extract_identifier)
              @@ ("BaseData" :> get_localized_text(cfg, language, extract.base_data))
              @@ ("PLRCadastreAuthority" :>
                     format_office(cfg, language, extract.plr_cadastre_authority))
              @@ ("RealEstate" :> real_estate)
              @@ ("ConcernedTheme" :> format_themes(cfg, language, extract.concerned_theme))
              @@ ("NotConcernedTheme" :>
                     format_themes(cfg, language, extract.not_concerned_theme))
              @@ ("ThemeWithoutData" :>
                     format_themes(cfg, language, extract.theme_without_data))
        d1 == Update(d0, logos(request, param, extract))
        d2 == IfSet(d1, extract.electronic_signature, "ElectronicSignature")
        d3 == IfSet(d2, extract.qr_code, "QRCode")
        d4 == IfSetLocalized(cfg, language, d3, extract.general_information,
                             "GeneralInformation")
        d5 == Update(d4, If(NonEmptyList(extract.exclusions_of_liability),
                            "ExclusionOfLiability" :>
                                title_content(cfg, language,
                                              extract.exclusions_of_liability.items)))
    IN  Update(d5, If(NonEmptyList(extract.glossaries),
                      "Glossary" :> title_content(cfg, language, extract.glossaries.items)))

\* lines 79-137 with self._language = language
render_with(cfg, language, request, extract, param) ==
    Bind(format_real_estate(cfg, language, param, request, extract.real_estate),
         LAMBDA real_estate :
             Return(extract_dict(cfg, language, request, extract, param, real_estate)))

\* _render(extract, param) on a renderer whose self._language is language and
\* whose self._request is request: what it returns or raises
render(cfg, language, request, extract, param) ==
    IF ~param.isParameter
    THEN Raise(MissingParameter)
    ELSE render_with(cfg, language_after(language, param), request, extract, param)

\* self._language when _render returns or raises (the TypeError of line 71 is
\* raised before the language is read)
render_language(language, param) ==
    IF param.isParameter THEN language_after(language, param) ELSE language

(***************************************************************************)
(* Inputs: the records of an extract.                                      *)
(***************************************************************************)
Multilingual(de, fr) == PyDict(("de" :> de) @@ ("fr" :> fr))

SomeTheme == [code |-> "LandUsePlans", text |-> Multilingual("Nutzungsplanung", "Plans")]

SomeLegendEntry ==
    [legend_text |-> Multilingual("Wohnzone", "Zone d'habitation"),
     type_code |-> PyStr("w1"), type_code_list |-> PyStr("codelist"),
     theme |-> SomeTheme, symbol |-> Image("legend.png"),
     sub_theme |-> None, additional_theme |-> PyStr("other")]

\* a view service with and without an image and a legend
MapRecord(image, legends) ==
    [image |-> image, link_wms |-> PyStr("https://wms"), legend_web |-> None,
     legends |-> legends]

SomeArticle ==
    [class |-> "ArticleRecord", legal_state |-> "inForce", number |-> PyStr("Art. 3"),
     text_at_web |-> None, text |-> Multilingual("Text", "Texte")]

DocumentRecord(class, title, articles, references) ==
    [class |-> class, legal_state |-> "inForce",
     text_at_web |-> Multilingual("https://de", "https://fr"),
     title |-> PyStr(title), responsible_office |-> SomeOffice,
     official_title |-> None, abbreviation |-> PyStr("RPG"),
     official_number |-> PyStr("700"), canton |-> None, municipality |-> None,
     article_numbers |-> List(<<"Art. 3">>), articles |-> articles,
     references |-> references]

SomeLaw == DocumentRecord("DocumentRecord", "Raumplanungsgesetz", List(<<SomeArticle>>), NoList)

SomeLegalProvision ==
    DocumentRecord("LegalProvisionRecord", "Zonenreglement", List(<<>>), List(<<SomeLaw>>))

\* plr.documents: an empty list, a list of legal provisions
DocumentLists == {List(<<>>), List(<<SomeLegalProvision>>)}

GeometryRecord(tag) ==
    [geom |-> [type |-> tag, coordinates |-> <<1, 2>>], legal_state |-> "inForce",
     office |-> SomeOffice, geo_metadata |-> None]

\* plr.geometries: none, one of a configured type, one of a type that no
\* table configures
GeometryLists ==
    { List(<<>>), List(<<GeometryRecord("Polygon")>>),
      List(<<GeometryRecord("GeometryCollection")>>) }

PlrRecord(documents, geometries, type_code, view_service) ==
    [class |-> "PlrRecord", content |-> Multilingual("Inhalt", "Contenu"),
     theme |-> SomeTheme, legal_state |-> "inForce", area |-> PyInt(12),
     responsible_office |-> SomeOffice, view_service |-> view_service,
     symbol |-> Image("symbol.png"), subtopic |-> None, additional_topic |-> None,
     type_code |-> type_code, type_code_list |-> None, part_in_percent |-> PyInt(5),
     geometries |-> geometries, documents |-> documents]

\* an entry of the list that is no PlrRecord: format_plr skips it
NotAPlr ==
    [PlrRecord(NoList, List(<<>>), None, MapRecord(None, NoList)) EXCEPT !.class = "object"]

TypeCodes == {None, PyStr("w1")}

SomeMap == MapRecord(Image("map.png"), NoList)

\* the entries of a list handed to format_plr: restrictions with and without
\* documents, geometries and type code, one whose documents are no list, one
\* with a second geometry of an unconfigured type, and one that is no PlrRecord
Plrs ==
    { PlrRecord(documents, geometries, type_code, SomeMap) :
        documents \in DocumentLists, geometries \in GeometryLists, type_code \in TypeCodes }
    \cup { PlrRecord(NoList, List(<<>>), PyStr("w1"), SomeMap),
           PlrRecord(List(<<SomeLegalProvision>>),
                     List(<<GeometryRecord("Polygon"), GeometryRecord("GeometryCollection")>>),
                     None, SomeMap),
           NotAPlr }

\* the lists of at most n elements of S
RECURSIVE ListsUpTo(_, _)

ListsUpTo(S, n) ==
    IF n = 0 THEN {<<>>}
    ELSE LET shorter == ListsUpTo(S, n - 1)
         IN  shorter \cup { Append(l, x) : l \in {m \in shorter : Len(m) = n - 1}, x \in S }

PlrLists == ListsUpTo(Plrs, MaxPlrs)

(***************************************************************************)
(* Inputs: the parameter of a request (views/webservice.py Parameter).     *)
(***************************************************************************)
Flavours == {"full", "reduced", "embeddable"}

Parameter(flavour, images, geometry, language) ==
    [isParameter |-> TRUE, flavour |-> flavour, images |-> images,
     geometry |-> geometry, language |-> language]

\* what _render is handed when the caller passes no Parameter
NotAParameter == NoParams

Requests == {"request1"}

RealEstateRecord(plan_for_land_register, public_law_restrictions) ==
    [type |-> "RealEstate", canton |-> "BL", municipality |-> "Liestal", fosnr |-> 2829,
     land_registry_area |-> 1000, plan_for_land_register |-> plan_for_land_register,
     limit |-> [type |-> "MultiPolygon", coordinates |-> <<0, 0>>],
     number |-> PyStr("70"), identdn |-> None, egrid |-> PyStr("CH1234"),
     subunit_of_land_register |-> None, metadata_of_geographical_base_data |-> None,
     public_law_restrictions |-> public_law_restrictions,
     references |-> List(<<SomeLaw>>)]

ExtractRecord(real_estate) ==
    [creation_date |-> "2017-03-27", extract_identifier |-> "id1",
     base_data |-> Multilingual("Daten", "Donnees"),
     plr_cadastre_authority |-> SomeOffice, real_estate |-> real_estate,
     concerned_theme |-> <<SomeTheme>>, not_concerned_theme |-> <<>>,
     theme_without_data |-> <<>>,
     logo_plr_cadastre |-> Image("oereb.png"), federal_logo |-> Image("ch.png"),
     cantonal_logo |-> Image("bl.png"), municipality_logo |-> Image("liestal.png"),
     electronic_signature |-> None, qr_code |-> PyStr("qr"),
     general_information |-> Multilingual("Info", "Infos"),
     exclusions_of_liability |->
         List(<<[title |-> PyStr("Haftung"), content |-> Multilingual("a", "b")]>>),
     glossaries |-> NoList]

\* real_estate.public_law_restrictions of the extracts: no list, no restriction,
\* a restriction with and without legal provision, one with a legend, one whose
\* geometry no table configures
RestrictionLists ==
    { NoList, List(<<>>),
      List(<<PlrRecord(List(<<SomeLegalProvision>>), List(<<GeometryRecord("Polygon")>>),
                       PyStr("w1"), MapRecord(Image("map.png"), List(<<SomeLegendEntry>>)))>>),
      List(<<PlrRecord(List(<<>>), List(<<>>), None, MapRecord(None, NoList))>>),
      List(<<PlrRecord(List(<<SomeLegalProvision>>),
                       List(<<GeometryRecord("GeometryCollection")>>),
                       None, MapRecord(None, NoList)),
             NotAPlr>>) }

Extracts ==
    { ExtractRecord(RealEstateRecord(MapRecord(image, NoList), restrictions)) :
        image \in {None, Image("plan.png")}, restrictions \in RestrictionLists }

(***************************************************************************)
(* The renderer: a Renderer is constructed, then called once per request.  *)
(***************************************************************************)
CallParameters ==
    { Parameter(flavour, images, geometry, language) :
        flavour \in Flavours, images \in BOOLEAN, geometry \in BOOLEAN,
        language \in {None, PyStr("FR")} }
    \cup {NotAParameter}

\* unicode(dumps(result))
dumps(result) == <<"json", result>>

\* Renderer.__init__
Init ==
    /\ Config \in {c \in Configs : c.geometry_types = ShippedGeometryTypes}
    /\ _language = InitialLanguage(Config)
    /\ _params = NoParams
    /\ _request = ""
    /\ office = NoNode
    /\ arg = <<>>
    /\ out = NoResult
    /\ pc = "constructed"
    /\ renders = <<>>
    /\ frames = <<>>

\* Renderer.__call__((extract, param), system), _render included
Call(extract, param, request) ==
    /\ _request' = request
    /\ _params' = param
    /\ _language' = render_language(_language, param)
    /\ out' = Bind(render(Config, _language, request, extract, param),
                   LAMBDA document :
                       Return(dumps([GetExtractByIdResponse |-> [extract |-> document]])))
    /\ arg' = <<extract, param>>
    /\ pc' = "called"
    /\ UNCHANGED <<Config, office, renders, frames>>

Next == \E extract \in Extracts, param \in CallParameters, request \in Requests :
            Call(extract, param, request)

Spec == Init /\ [][Next]_vars

(***************************************************************************)
(* The formatters on their own: a renderer in a state that a request left  *)
(* it in formats one input drawn from the inputs above.                    *)
(***************************************************************************)
InitFormatter(configs, languages, params, inputs) ==
    /\ Config \in configs
    /\ _language \in {render_language(InitialLanguage(Config),
                                      Parameter("full", FALSE, FALSE, l)) : l \in languages}
    /\ _params \in params
    /\ _request = "request1"
    /\ office = NoNode
    /\ arg \in inputs
    /\ out = NoResult
    /\ pc = "ready"
    /\ renders = <<>>
    /\ frames = <<>>

InitText ==
    InitFormatter({c \in Configs : c.geometry_types = ShippedGeometryTypes},
                  RequestLanguages, {NoParams}, LocalizedValues)

\* renderer.get_localized_text(arg)
GetLocalizedText ==
    /\ pc = "ready"
    /\ out' = Return(get_localized_text(Config, _language, arg))
    /\ pc' = "done"
    /\ UNCHANGED <<Config, _language, _params, _request, office, arg, renders, frames>>

SpecText == InitText /\ [][GetLocalizedText]_vars

Geometries ==
    { [GeometryRecord(tag) EXCEPT !.geo_metadata = geo_metadata, !.legal_state = legal_state] :
        tag \in GeometryTypeTags,
        geo_metadata \in {None, PyStr(""), PyStr("https://metadata")},
        legal_state \in {"inForce", "runningModifications"} }

InitGeometry == InitFormatter(Configs, {None}, {NoParams}, Geometries)

\* renderer.format_geometry(arg)
FormatGeometry ==
    /\ pc = "ready"
    /\ out' = format_geometry(Config, _language, arg)
    /\ pc' = "done"
    /\ UNCHANGED <<Config, _language, _params, _request, office, arg, renders, frames>>

SpecGeometry == InitGeometry /\ [][FormatGeometry]_vars

PlrParameters ==
    { Parameter(flavour, images, geometry, None) :
        flavour \in Flavours, images \in BOOLEAN, geometry \in BOOLEAN }
    \cup {NotAParameter}

InitPlr ==
    InitFormatter({c \in Configs : c.geometry_types = ShippedGeometryTypes},
                  {None}, PlrParameters, PlrLists)

\* renderer.format_plr(arg)
FormatPlr ==
    /\ pc = "ready"
    /\ out' = format_plr(Config, _language, _params, _request, arg)
    /\ pc' = "done"
    /\ UNCHANGED <<Config, _language, _params, _request, office, arg, renders, frames>>

SpecPlr == InitPlr /\ [][FormatPlr]_vars

(***************************************************************************)
(* The renderer called by several requests at once: each call runs the     *)
(* statements of __call__ and _render in order, a statement at a time, on  *)
(* the fields of the one Renderer (self._request, self._params,            *)
(* self._language); its extract, its parameter and the extract_dict it     *)
(* builds are local to the call.                                           *)
(***************************************************************************)
Renders == 1..MaxRenders

\* system.get('request'): every call has a request of its own
RequestOf(t) == CASE t = 1 -> "request1" [] t = 2 -> "request2" [] OTHER -> "request3"

\* the extracts of the concurrent calls: a restriction with legal provision,
\* geometry and legend, and a restriction without legal provision
ConcurrentExtracts ==
    { ExtractRecord(RealEstateRecord(MapRecord(None, NoList), restrictions)) :
        restrictions \in
            { List(<<PlrRecord(List(<<SomeLegalProvision>>),
                               List(<<GeometryRecord("Polygon")>>), PyStr("w1"),
                               MapRecord(Image("map.png"), List(<<SomeLegendEntry>>)))>>),
              List(<<PlrRecord(List(<<>>), List(<<>>), None, MapRecord(None, NoList))>>) } }

\* the parameters of the concurrent calls: each requests a language, so that
\* a call that runs alone does not depend on the calls before it
ConcurrentParameters ==
    { Parameter(flavour, FALSE, FALSE, language) :
        flavour \in {"full", "reduced"}, language \in {PyStr("de"), PyStr("FR")} }
    \cup { Parameter("reduced", TRUE, TRUE, PyStr("de")), NotAParameter }

IdleRender ==
    [pc |-> "idle", extract |-> NoNode, param |-> NoParams, request |-> "",
     extract_dict |-> NoNode, out |-> NoResult]

InitConcurrent ==
    /\ Config \in {c \in Configs : c.geometry_types = ShippedGeometryTypes
                                   /\ c.default_language = "de"}
    /\ _language = InitialLanguage(Config)
    /\ _params = NoParams
    /\ _request = ""
    /\ office = NoNode
    /\ arg = <<>>
    /\ out = NoResult
    /\ pc = "constructed"
    /\ renders = [t \in Renders |-> IdleRender]
    /\ frames = <<>>

\* the call goes on at the statement of line label
Goto(t, label) == [renders EXCEPT ![t].pc = label]

\* the call goes on at line label with entries added to its extract_dict
Extend(t, label, entries) ==
    [renders EXCEPT ![t].pc = label, ![t].extract_dict = Update(@, entries)]

\* the call returns or raises
Finish(t, result) == [renders EXCEPT ![t].pc = "done", ![t].out = result]

\* the entries of a node under the keys of S
Restrict(node, S) == [k \in DOMAIN node \cap S |-> node[k]]

\* what lines 79-137 put into the extract_dict of call t, apart from the real
\* estate and the logos, with the fields of the Renderer as they are now
Entries(t) ==
    extract_dict(Config, _language, _request, renders[t].extract, _params, NoNode)

\* line 42: renderer((extract, param), system) is called
Line42(t, extract, param) ==
    /\ renders[t].pc = "idle"
    /\ _request' = RequestOf(t)
    /\ renders' = [renders EXCEPT ![t] =
                       [pc |-> "l68", extract |-> extract, param |-> param,
                        request |-> RequestOf(t), extract_dict |-> NoNode,
                        out |-> NoResult]]
    /\ UNCHANGED <<Config, _language, _params, office, arg, out, pc, frames>>

\* line 68: self._params = param
Line68(t) ==
    /\ renders[t].pc = "l68"
    /\ _params' = renders[t].param
    /\ renders' = Goto(t, "l70")
    /\ UNCHANGED <<Config, _language, _request, office, arg, out, pc, frames>>

\* lines 70-74: if not isinstance(self._params, Parameter): raise TypeError
Line70(t) ==
    /\ renders[t].pc = "l70"
    /\ renders' = IF ~_params.isParameter
                  THEN Finish(t, Raise(MissingParameter))
                  ELSE Goto(t, "l76")
    /\ UNCHANGED <<Config, _language, _params, _request, office, arg, out, pc, frames>>

\* lines 76-77: if self._params.language: self._language = ...
Line76(t) ==
    /\ renders[t].pc = "l76"
    /\ renders' = IF ~_params.isParameter
                  THEN Finish(t, Raise(AttributeError))
                  ELSE Goto(t, "l80")
    /\ _language' = render_language(_language, _params)
    /\ UNCHANGED <<Config, _params, _request, office, arg, out, pc, frames>>

\* lines 80-84: CreationDate, isReduced, ExtractIdentifier, BaseData,
\* PLRCadastreAuthority
Line80(t) ==
    /\ renders[t].pc = "l80"
    /\ renders' = IF ~_params.isParameter
                  THEN Finish(t, Raise(AttributeError))
                  ELSE Extend(t, "l85",
                              Restrict(Entries(t),
                                       {"CreationDate", "isReduced", "ExtractIdentifier",
                                        "BaseData", "PLRCadastreAuthority"}))
    /\ UNCHANGED <<Config, _language, _params, _request, office, arg, out, pc, frames>>

\* the call goes on after format_real_estate has returned or raised
AfterRealEstate(t, result) ==
    IF result.status = "raise"
    THEN Finish(t, result)
    ELSE Extend(t, "l86", "RealEstate" :> result.val)

\* line 85: RealEstate
Line85(t) ==
    /\ renders[t].pc = "l85"
    /\ renders' = AfterRealEstate(t, format_real_estate(Config, _language, _params, _request,
                                                        renders[t].extract.real_estate))
    /\ UNCHANGED <<Config, _language, _params, _request, office, arg, out, pc, frames>>

\* lines 86-88: ConcernedTheme, NotConcernedTheme, ThemeWithoutData
Line86(t) ==
    /\ renders[t].pc = "l86"
    /\ renders' = Extend(t, "l91",
                         Restrict(Entries(t),
                                  {"ConcernedTheme", "NotConcernedTheme", "ThemeWithoutData"}))
    /\ UNCHANGED <<Config, _language, _params, _request, office, arg, out, pc, frames>>

\* lines 91-110: the logos
Line91(t) ==
    /\ renders[t].pc = "l91"
    /\ renders' = IF ~_params.isParameter
                  THEN Finish(t, Raise(AttributeError))
                  ELSE Extend(t, "l112", logos(_request, _params, renders[t].extract))
    /\ UNCHANGED <<Config, _language, _params, _request, office, arg, out, pc, frames>>

\* lines 112-135: ElectronicSignature, QRCode, GeneralInformation,
\* ExclusionOfLiability, Glossary
Line112(t) ==
    /\ renders[t].pc = "l112"
    /\ renders' = Extend(t, "l137",
                         Restrict(Entries(t),
                                  {"ElectronicSignature", "QRCode", "GeneralInformation",
                                   "ExclusionOfLiability", "Glossary"}))
    /\ UNCHANGED <<Config, _language, _params, _request, office, arg, out, pc, frames>>

\* lines 137, 50-55: return extract_dict; return unicode(dumps(result))
Line137(t) ==
    /\ renders[t].pc = "l137"
    /\ renders' = Finish(t, Return(dumps([GetExtractByIdResponse |->
                                              [extract |-> renders[t].extract_dict]])))
    /\ UNCHANGED <<Config, _language, _params, _request, office, arg, out, pc, frames>>

NextConcurrent ==
    \E t \in Renders :
        \/ \E extract \in ConcurrentExtracts, param \in ConcurrentParameters :
               Line42(t, extract, param)
        \/ Line68(t)
        \/ Line70(t)
        \/ Line76(t)
        \/ Line80(t)
        \/ Line85(t)
        \/ Line86(t)
        \/ Line91(t)
        \/ Line112(t)
        \/ Line137(t)

SpecConcurrent == InitConcurrent /\ [][NextConcurrent]_vars

(***************************************************************************)
(* format_document on a graph of documents: the records are objects that   *)
(* refer to each other, here by identifier, and each call of               *)
(* format_document is a frame of the call stack.                           *)
(***************************************************************************)
DocumentIds == 1..MaxDocuments

DocumentTitle(d) ==
    CASE d = 1 -> "Zonenreglement" [] d = 2 -> "Raumplanungsgesetz" [] OTHER -> "Verordnung"

\* document.references of a document: at most two documents of the graph
ReferenceLists ==
    {<<>>} \cup { <<d>> : d \in DocumentIds }
           \cup { <<d, e>> : <<d, e>> \in {p \in DocumentIds \X DocumentIds : p[1] # p[2]} }

\* the graphs: every document with its references, among them itself and
\* the documents that refer to it
DocumentGraphs ==
    { [d \in DocumentIds |->
          DocumentRecord(IF d = 1 THEN "LegalProvisionRecord" ELSE "DocumentRecord",
                         DocumentTitle(d),
                         IF d = 2 THEN List(<<SomeArticle>>) ELSE NoList,
                         List(references[d]))] :
        references \in [DocumentIds -> ReferenceLists] }

InitDocument ==
    /\ Config \in {c \in Configs : c.geometry_types = ShippedGeometryTypes
                                   /\ c.default_language = "de"}
    /\ _language = InitialLanguage(Config)
    /\ _params = NoParams
    /\ _request = "request1"
    /\ office = NoNode
    /\ arg \in DocumentGraphs
    /\ out = NoResult
    /\ pc = "ready"
    /\ renders = <<>>
    /\ frames = <<>>

\* lines 277-304: a call of format_document(document) up to the loop over
\* document.references
Frame(d) ==
    [document |-> d,
     document_dict |-> format_document(Config, _language,
                                       [arg[d] EXCEPT !.references = NoList]),
     reference_list |-> <<>>]

\* the call on top of the stack and the references it has yet to format
Top == frames[Len(frames)]

Pending(frame) ==
    SubSeq(arg[frame.document].references.items, Len(frame.reference_list) + 1,
           Len(arg[frame.document].references.items))

\* renderer.format_document(document) for the first document of the graph
FormatDocument ==
    /\ pc = "ready"
    /\ frames' = <<Frame(1)>>
    /\ pc' = "formatting"
    /\ UNCHANGED <<Config, _language, _params, _request, office, arg, out, renders>>

\* line 311: self.format_document(reference)
FormatReference ==
    /\ pc = "formatting"
    /\ Pending(Top) # <<>>
    /\ Len(frames) < RecursionLimit
    /\ frames' = Append(frames, Frame(Head(Pending(Top))))
    /\ UNCHANGED <<Config, _language, _params, _request, office, arg, out, pc, renders>>

\* line 311 at the recursion limit: the interpreter raises, no caller catches
RecursionError ==
    /\ pc = "formatting"
    /\ Pending(Top) # <<>>
    /\ Len(frames) = RecursionLimit
    /\ out' = Raise(RecursionDepthExceeded)
    /\ frames' = <<>>
    /\ pc' = "done"
    /\ UNCHANGED <<Config, _language, _params, _request, office, arg, renders>>

\* lines 312, 327: document_dict with its Reference list
Returned(frame) ==
    Update(frame.document_dict,
           If(NonEmptyList(arg[frame.document].references),
              "Reference" :> frame.reference_list))

\* line 327 in a call made at line 311: the caller appends the node
ReturnReference ==
    /\ pc = "formatting"
    /\ Pending(Top) = <<>>
    /\ Len(frames) > 1
    /\ frames' = [SubSeq(frames, 1, Len(frames) - 1) EXCEPT
                     ![Len(frames) - 1].reference_list = Append(@, Returned(Top))]
    /\ UNCHANGED <<Config, _language, _params, _request, office, arg, out, pc, renders>>

\* line 327 in the first call
ReturnDocument ==
    /\ pc = "formatting"
    /\ Pending(Top) = <<>>
    /\ Len(frames) = 1
    /\ out' = Return(Returned(Top))
    /\ frames' = <<>>
    /\ pc' = "done"
    /\ UNCHANGED <<Config, _language, _params, _request, office, arg, renders>>

NextDocument ==
    FormatDocument \/ FormatReference \/ RecursionError \/ ReturnReference \/ ReturnDocument

SpecDocument == InitDocument /\ [][NextDocument]_vars

(***************************************************************************)
(* Properties of get_localized_text (SpecText).                            *)
(***************************************************************************)
\* the dict holds a text for the language
Translated(values, language) == values.type = "dict" /\ language \in DOMAIN values.dict

\* C3: get_localized_text always returns a list of exactly one
\* {Language, Text} entry: the requested language (self._language) and its
\* text when the dict has it, the default language and its text when the
\* dict has the default language only, the default language and the string
\* itself when the value is a plain string.
C3_OneLocalizedEntry ==
    pc = "done" =>
        /\ out.status = "ok"
        /\ Len(out.val) = 1
        /\ DOMAIN out.val[1] = {"Language", "Text"}
        /\ Translated(arg, _language) =>
               /\ out.val[1].Language = _language
               /\ out.val[1].Text = PyStr(arg.dict[_language])
        /\ (arg.type = "dict" /\ ~Translated(arg, _language)
              /\ Translated(arg, Config.default_language)) =>
               /\ out.val[1].Language = Config.default_language
               /\ out.val[1].Text = PyStr(arg.dict[Config.default_language])
        /\ arg.type = "str" =>
               /\ out.val[1].Language = Config.default_language
               /\ out.val[1].Text = arg

\* a dict without the requested language has been resolved to its default
\* language, which differs from the requested one
C3_Witness ==
    /\ pc = "done"
    /\ arg.type = "dict"
    /\ ~Translated(arg, _language)
    /\ Translated(arg, Config.default_language)
    /\ out.val[1].Language # _language

\* C4: a dict with neither the requested nor the default language makes
\* get_localized_text fail; no entry with an empty Text is returned.
C4_MissingTranslationFails ==
    (pc = "done" /\ arg.type = "dict" /\ ~Translated(arg, _language)
       /\ ~Translated(arg, Config.default_language))
    => out.status = "raise"

(***************************************************************************)
(* Properties of format_geometry (SpecGeometry).                           *)
(***************************************************************************)
GeometryKeys == {"Point", "Line", "Surface"}

\* the first category, in the order point, line, polygon, whose set has the tag
FirstCategory(table, tag) ==
    CASE tag \in table.point -> "Point"
      [] tag \notin table.point /\ tag \in table.line -> "Line"
      [] tag \notin table.point /\ tag \notin table.line /\ tag \in table.polygon -> "Surface"

\* C5: format_geometry raises the unknown-geometry-type error exactly when
\* the type tag is in none of the three configured sets; otherwise the node
\* has exactly one of the keys Point, Line, Surface: the first category, in
\* the order point, line, polygon, whose set contains the tag.
C5_GeometryClassification ==
    pc = "done" =>
        LET table == Config.geometry_types
            tag == arg.geom.type
            configured == tag \in table.point \cup table.line \cup table.polygon
        IN  /\ out.status = "raise" <=> ~configured
            /\ out.status = "raise" => out.err = UnknownGeometryType
            /\ out.status = "ok" =>
                   DOMAIN out.val \cap GeometryKeys = {FirstCategory(table, tag)}

\* a tag listed in two categories has been given the first one
C5_Witness ==
    /\ pc = "done"
    /\ arg.geom.type \in Config.geometry_types.point \cap Config.geometry_types.line
    /\ out.status = "ok"
    /\ Has(out.val, "Point")

(***************************************************************************)
(* Properties of OfficeRecord and format_office (SpecOffice).              *)
(***************************************************************************)
OfficeKey(f) ==
    CASE f = "office_at_web" -> "OfficeAtWeb"
      [] f = "uid" -> "UID"
      [] f = "line1" -> "Line1"
      [] f = "line2" -> "Line2"
      [] f = "street" -> "Street"
      [] f = "number" -> "Number"
      [] f = "postal_code" -> "PostalCode"
      [] f = "city" -> "City"

\* non-null and non-empty
Present(v) == v # None /\ v # PyStr("")

\* C8: the keys of format_office's output are Name and one key per optional
\* field that is present (non-null, non-empty) on the record, holding the
\* field's value; a record with only its name set yields exactly Name.
C8_OfficeKeys ==
    pc = "formatted" =>
        /\ out.status = "ok"
        /\ DOMAIN out.val =
               {"Name"} \cup {OfficeKey(f) : f \in {g \in OfficeOptionalFields : Present(office[g])}}
        /\ \A f \in OfficeOptionalFields :
               Has(out.val, OfficeKey(f)) => out.val[OfficeKey(f)] = office[f]

\* an office with some fields present, one empty and the others not supplied
\* has been formatted
C8_Witness ==
    /\ pc = "formatted"
    /\ Present(office["uid"])
    /\ office["line1"] = PyStr("")
    /\ office["city"] = None
    /\ Has(out.val, "UID")
    /\ ~Has(out.val, "Line1")

\* C9: OfficeRecord(...) without a name (omitted, None or empty) raises
\* TypeError and creates no record; a constructed record has a non-empty
\* name, holds each supplied field unchanged and None in every other field.
C9_OfficeRecordInit ==
    pc # "new" =>
        LET named == "name" \in DOMAIN arg /\ Present(arg["name"])
        IN  /\ ~named => /\ pc = "raised"
                         /\ out.status = "raise"
                         /\ out.err = MissingName
                         /\ office = NoNode
            /\ named => /\ pc \in {"constructed", "formatted"}
                        /\ DOMAIN office = OfficeFields
                        /\ Present(office["name"])
                        /\ \A f \in OfficeFields :
                               office[f] = IF f \in DOMAIN arg THEN arg[f] ELSE None

\* a record has been constructed from a name and two further arguments
C9_Witness ==
    /\ pc = "constructed"
    /\ DOMAIN arg = {"name", "uid", "postal_code"}
    /\ office["postal_code"] = PyInt(4123)
    /\ office["line1"] = None

(***************************************************************************)
(* Properties of format_plr (SpecPlr).                                     *)
(***************************************************************************)
\* the restrictions of a list: its PlrRecord entries, in order
IsPlrRecord(plr) == plr.class = "PlrRecord"

Restrictions(plrs) == SelectSeq(plrs, IsPlrRecord)

\* the restriction has an empty document list
NoLegalBasis(plr) == IsPlrRecord(plr) /\ plr.documents = List(<<>>)

\* the type of one of the restriction's geometries is in no configured set
UnconfiguredGeometry(plr) ==
    /\ IsPlrRecord(plr)
    /\ plr.geometries.isList
    /\ \E i \in 1..Len(plr.geometries.items) :
           plr.geometries.items[i].geom.type \notin
               Config.geometry_types.point \cup Config.geometry_types.line
                   \cup Config.geometry_types.polygon

\* format_plr has run under a flavour that is not "reduced"
FormattedNotReduced ==
    pc = "done" /\ _params.isParameter /\ _params.flavour \in {"full", "embeddable"}

FirstWithoutLegalBasis == CHOOSE i \in 1..Len(arg) :
    NoLegalBasis(arg[i]) /\ \A j \in 1..(i - 1) : ~NoLegalBasis(arg[j])

\* C1 as stated: under a flavour other than "reduced", a list with a
\* restriction whose document list is empty makes format_plr fail with the
\* missing-legal-basis error, and nothing is returned.
C1_MissingLegalBasisAlways ==
    (FormattedNotReduced /\ \E i \in 1..Len(arg) : NoLegalBasis(arg[i]))
    => /\ out.status = "raise"
       /\ out.err = MissingLegalBasis
       /\ out.val = NoNode

\* C1 amended: under a flavour other than "reduced", a list with a
\* restriction whose document list is empty makes format_plr fail and return
\* nothing; the error is the missing-legal-basis error, unless geometries are
\* rendered and a restriction before the first one without documents has a
\* geometry of an unconfigured type, which raises the unknown-geometry-type
\* error first.
C1_FailsWithoutLegalBasis ==
    (FormattedNotReduced /\ \E i \in 1..Len(arg) : NoLegalBasis(arg[i]))
    => /\ out.status = "raise"
       /\ out.val = NoNode
       /\ out.err =
              IF /\ _params.geometry
                 /\ \E j \in 1..(FirstWithoutLegalBasis - 1) : UnconfiguredGeometry(arg[j])
              THEN UnknownGeometryType
              ELSE MissingLegalBasis

\* a restriction with documents precedes one without, and the call failed
\* with the missing-legal-basis error
C1_Witness ==
    /\ FormattedNotReduced
    /\ _params.flavour = "embeddable"
    /\ Len(arg) = 2
    /\ IsPlrRecord(arg[1]) /\ NonEmptyList(arg[1].documents)
    /\ NoLegalBasis(arg[2])
    /\ out.err = MissingLegalBasis

\* every node of a returned list has LegalProvisions iff the document list
\* of its restriction is non-empty
LegalProvisionsIffDocuments ==
    out.status = "ok" =>
        /\ Len(out.val) = Len(Restrictions(arg))
        /\ \A k \in 1..Len(out.val) :
               Has(out.val[k], "LegalProvisions")
                   <=> NonEmptyList(Restrictions(arg)[k].documents)

\* C2 as stated: with flavour "reduced" format_plr succeeds on a restriction
\* with an empty document list and its node has no LegalProvisions key;
\* LegalProvisions is present iff the document list is non-empty.
C2_ReducedAlwaysSucceeds ==
    (pc = "done" /\ _params.isParameter) =>
        /\ (_params.flavour = "reduced" /\ \E i \in 1..Len(arg) : NoLegalBasis(arg[i]))
               => out.status = "ok"
        /\ LegalProvisionsIffDocuments

\* C2 amended: with flavour "reduced" format_plr never fails for a missing
\* legal basis: it succeeds unless geometries are rendered and a restriction
\* has a geometry of an unconfigured type (the unknown-geometry-type error);
\* in every list format_plr returns, a restriction's node has
\* LegalProvisions iff its document list is non-empty, so the node of a
\* restriction with an empty document list has none.
C2_ReducedWithoutLegalBasis ==
    (pc = "done" /\ _params.isParameter) =>
        /\ _params.flavour = "reduced" =>
               /\ out.status = "raise"
                      <=> (_params.geometry
                             /\ \E i \in 1..Len(arg) : UnconfiguredGeometry(arg[i]))
               /\ out.status = "raise" => out.err = UnknownGeometryType
        /\ LegalProvisionsIffDocuments

\* a reduced extract with a restriction without documents after one with
\* documents has been formatted
C2_Witness ==
    /\ pc = "done"
    /\ _params.isParameter
    /\ _params.flavour = "reduced"
    /\ out.status = "ok"
    /\ Len(out.val) = 2
    /\ NoLegalBasis(Restrictions(arg)[2])
    /\ Has(out.val[1], "LegalProvisions")
    /\ ~Has(out.val[2], "LegalProvisions")

\* C7: a restriction node has Symbol iff images are inlined, SymbolRef iff
\* they are not and the restriction has a type code, and never both.
C7_SymbolOrSymbolRef ==
    (pc = "done" /\ out.status = "ok") =>
        \A k \in 1..Len(out.val) :
            /\ Has(out.val[k], "Symbol") <=> _params.images
            /\ Has(out.val[k], "SymbolRef")
                   <=> (~_params.images /\ Present(Restrictions(arg)[k].type_code))
            /\ ~(Has(out.val[k], "Symbol") /\ Has(out.val[k], "SymbolRef"))

\* without images, a restriction with a type code got a SymbolRef and one
\* without a type code got neither key
C7_Witness ==
    /\ pc = "done"
    /\ out.status = "ok"
    /\ ~_params.images
    /\ Len(out.val) = 2
    /\ Has(out.val[1], "SymbolRef")
    /\ ~Has(out.val[2], "SymbolRef")
    /\ ~Has(out.val[2], "Symbol")

(***************************************************************************)
(* Properties of a render (Spec).                                          *)
(***************************************************************************)
\* the extract of the document that the last call returned
Document == out.val[2].GetExtractByIdResponse.extract

Rendered == pc = "called" /\ out.status = "ok"

InlineLogoKeys == {"LogoPLRCadastre", "FederalLogo", "CantonalLogo", "MunicipalityLogo"}

LogoRefKeys == {"LogoPLRCadastreRef", "FederalLogoRef", "CantonalLogoRef", "MunicipalityLogoRef"}

\* the restriction nodes of the document
RestrictionNodes ==
    IF Has(Document.RealEstate, "RestrictionOnLandownership")
    THEN Document.RealEstate.RestrictionOnLandownership
    ELSE <<>>

\* the legend entries of a Map node
LegendNodes(map_node) == IF Has(map_node, "OtherLegend") THEN map_node.OtherLegend ELSE <<>>

\* a Map node and its legend entries hold no inline payload
MapWithoutPayload(map_node) ==
    /\ ~Has(map_node, "Image")
    /\ \A i \in 1..Len(LegendNodes(map_node)) : ~Has(LegendNodes(map_node)[i], "Symbol")

\* the legend entries of a Map node hold no reference
MapWithoutReference(map_node) ==
    \A i \in 1..Len(LegendNodes(map_node)) : ~Has(LegendNodes(map_node)[i], "SymbolRef")

\* the view services of the extract that was rendered, in the order of the
\* Map nodes of the document
RenderedRealEstate == arg[1].real_estate

\* C6: a document rendered without images holds no inline payload (Image of
\* a Map node, Symbol of a restriction or legend entry, the four logos), one
\* rendered with images holds no reference (SymbolRef, the four logo
\* references); the Map node of the plan for the land register has Image iff
\* images are inlined and the view service has an image.
C6_ImageModeNeverMixed ==
    Rendered =>
        /\ ~arg[2].images =>
               /\ DOMAIN Document \cap InlineLogoKeys = {}
               /\ MapWithoutPayload(Document.RealEstate.PlanForLandRegister)
               /\ \A k \in 1..Len(RestrictionNodes) :
                      /\ ~Has(RestrictionNodes[k], "Symbol")
                      /\ MapWithoutPayload(RestrictionNodes[k].Map)
        /\ arg[2].images =>
               /\ DOMAIN Document \cap LogoRefKeys = {}
               /\ MapWithoutReference(Document.RealEstate.PlanForLandRegister)
               /\ \A k \in 1..Len(RestrictionNodes) :
                      /\ ~Has(RestrictionNodes[k], "SymbolRef")
                      /\ MapWithoutReference(RestrictionNodes[k].Map)
        /\ Has(Document.RealEstate.PlanForLandRegister, "Image")
               <=> (arg[2].images /\ RenderedRealEstate.plan_for_land_register.image # None)

\* the real estate of the extract has no restriction
NoRestrictions == ~NonEmptyList(RenderedRealEstate.public_law_restrictions)

\* C10: an extract without restrictions rendered with flavour "embeddable"
\* and without images yields isReduced = TRUE, no RestrictionOnLandownership
\* key, the four logo references and none of the four inline logos; in every
\* rendered document isReduced is TRUE iff the flavour is "reduced" or
\* "embeddable" and RestrictionOnLandownership is present iff the list of
\* restrictions is non-empty.
C10_EndToEnd ==
    pc = "called" =>
        /\ (arg[2].isParameter /\ arg[2].flavour = "embeddable" /\ ~arg[2].images
              /\ NoRestrictions) =>
               /\ out.status = "ok"
               /\ Document.isReduced = TRUE
               /\ ~Has(Document.RealEstate, "RestrictionOnLandownership")
               /\ LogoRefKeys \subseteq DOMAIN Document
               /\ DOMAIN Document \cap InlineLogoKeys = {}
        /\ out.status = "ok" =>
               /\ Document.isReduced <=> arg[2].flavour \in {"reduced", "embeddable"}
               /\ Has(Document.RealEstate, "RestrictionOnLandownership")
                      <=> ~NoRestrictions

\* an embeddable extract without restrictions has been rendered without images
C10_Witness ==
    /\ Rendered
    /\ arg[2].flavour = "embeddable"
    /\ ~arg[2].images
    /\ RenderedRealEstate.public_law_restrictions = List(<<>>)
    /\ Document.isReduced

\* what a Renderer that has rendered nothing yet returns or raises for the
\* call that was made last
OnFreshRenderer ==
    Bind(render(Config, InitialLanguage(Config), _request, arg[1], arg[2]),
         LAMBDA document :
             Return(dumps([GetExtractByIdResponse |-> [extract |-> document]])))

\* C11: after any sequence of earlier calls, a render whose parameter carries
\* no requested language returns what it returns on a fresh renderer, with
\* every multilingual field resolved in the configured default language: the
\* language an earlier render requested does not carry over.
C11_IndependentOfEarlierRenders ==
    (pc = "called" /\ arg[2].isParameter /\ ~Truthy(arg[2].language)) =>
        out = OnFreshRenderer

(***************************************************************************)
(* Properties of concurrent calls (SpecConcurrent).                        *)
(***************************************************************************)
\* what call t returns or raises when it is the only call of the Renderer
Alone(t) ==
    Bind(render(Config, InitialLanguage(Config), renders[t].request, renders[t].extract,
                renders[t].param),
         LAMBDA document :
             Return(dumps([GetExtractByIdResponse |-> [extract |-> document]])))

\* call t is at a statement that formats its records
Formatting(t) == renders[t].pc \in {"l80", "l85", "l86", "l91", "l112"}

\* C12: whatever the interleaving of the calls of one Renderer, each call
\* returns (or raises) exactly what it returns when it runs alone, and while
\* a call formats its records the Renderer holds the parameter (flavour,
\* images, geometry), the language and the request of that call.
C12_ConcurrentRendersIndependent ==
    \A t \in Renders :
        /\ renders[t].pc = "done" => renders[t].out = Alone(t)
        /\ Formatting(t) =>
               /\ _params = renders[t].param
               /\ _request = renders[t].request
               /\ _language = render_language(InitialLanguage(Config), renders[t].param)

(***************************************************************************)
(* Properties of format_document on a graph of documents (SpecDocument).   *)
(***************************************************************************)
\* the error the formatter is to raise for a cycle of references
CyclicReference == "CyclicReference"

\* C13: format_document never enters a document that it is formatting
\* already (no document is in two frames of the call stack), and the call
\* ends with the formatted node or with the dedicated cyclic-reference
\* error, never by exhausting the recursion depth.
C13_FormatDocumentGuardsCycles ==
    /\ \A i, j \in 1..Len(frames) : frames[i].document = frames[j].document => i = j
    /\ pc = "done" => (out.status = "ok" \/ out.err = CyclicReference)

====
